---- MODULE Spec2Model ----
(***************************************************************************)
(* Bucketed cuckoo hash table (cuckoo_table.hpp, cuckoo_set.hpp).          *)
(*                                                                         *)
(* The table is modelled at the level of its slots: every bucket is a pair *)
(* of arrays key_slots / value_slots, the table owns the bucket array, the *)
(* size counter and (process wide) the rotating victim counter.  The set   *)
(* variant is the same algorithm without the value array; its batched      *)
(* lookup differs and is modelled separately (find_batched_set).           *)
(*                                                                         *)
(* Machine words are WordBits wide, so that NULL_KEY = -1 is the all-ones  *)
(* word and h ^ k, h & mask are computed bit by bit.                       *)
(***************************************************************************)
EXTENDS Integers, Sequences, FiniteSets, TLC

\* ---------------------------------------------------------------- bounds
WordBits == 4          \* width of a key / hash word in the model
Capacity == 8          \* capacity handed to the constructor
MaxKey == 4            \* callers insert keys 0..MaxKey
MaxValue == 1          \* callers store values 0..MaxValue
MaxOps == 6            \* number of insert / erase calls in one run
MaxCollideOps == 7     \* calls in a run under the colliding hash
MaxLookupOps == 6      \* calls in a run that compares the batched lookups
MaxMapOps == 6         \* calls in a run of the map variant
MaxBatch == 2          \* longest find_batched window that is explored
SizeBits == 8          \* width of size_t in the constructor's arithmetic
MaxCapacity == 9       \* capacities 1..MaxCapacity are handed to the constructor
NumThreads == 2        \* num_threads handed to the thread pool
MaxPoolCalls == 3      \* queue and kill calls the caller makes in one run
NumWindows == 1        \* find_batched windows each lookup thread of run_test runs

\* ------------------------------------------------------ program constants
SLOTS_PER_BUCKET == 4
MAX_INSERT_DEPTH == 256
NULL_SLOT_IDX == -1
nullptr == -1
hardware_constructive_interference_size == 64
LOAD_PERCENTAGE == 80
NUM_WORKERS == 2
SizeofKeyT == 8

\* ------------------------------------------------------------- bit logic
RECURSIVE Pow2(_)
Pow2(n) == IF n = 0 THEN 1 ELSE 2 * Pow2(n - 1)

RECURSIVE BitAnd(_, _)
BitAnd(a, b) ==
  IF a = 0 \/ b = 0 THEN 0
  ELSE (IF a % 2 = 1 /\ b % 2 = 1 THEN 1 ELSE 0) + 2 * BitAnd(a \div 2, b \div 2)

RECURSIVE BitOr(_, _)
BitOr(a, b) ==
  IF a = 0 THEN b
  ELSE IF b = 0 THEN a
  ELSE (IF a % 2 = 1 \/ b % 2 = 1 THEN 1 ELSE 0) + 2 * BitOr(a \div 2, b \div 2)

RECURSIVE BitXor(_, _)
BitXor(a, b) ==
  IF a = 0 THEN b
  ELSE IF b = 0 THEN a
  ELSE (IF a % 2 # b % 2 THEN 1 ELSE 0) + 2 * BitXor(a \div 2, b \div 2)

WordMod == Pow2(WordBits)
Word == 0 .. (WordMod - 1)

\* KeyT(-1), ValueT(-1): the all-ones word
NULL_KEY == WordMod - 1
NULL_VALUE == WordMod - 1

MAX_LOOKUP_BATCH_SZ == hardware_constructive_interference_size \div SizeofKeyT

Keys == 0 .. MaxKey
Values == 0 .. MaxValue
Slots == 0 .. (SLOTS_PER_BUCKET - 1)


\* ------------------------------------------------------------ the state
VARIABLES
  hash_fn,          \* Hash strategy: a deterministic function on words
  num_buckets_,     \* cuckoo_table::num_buckets_
  bucket_bitmask_,  \* cuckoo_table::bucket_bitmask_
  buckets_,         \* cuckoo_table::buckets_: bucket id -> key_slots, value_slots
  sz_,              \* cuckoo_table::sz_
  curr_idx,         \* Bucket::get_random_displace_idx()::curr_idx (low bits)
  pc,               \* "idle", or "walk" while insert runs displace_insert
  frame,            \* arguments of the pending displace_insert call
  last,             \* the last call: op, key, outcome
  at_entry,         \* history: buckets_ when the last insert was entered
  present,          \* history: keys inserted without error and not erased since
  assoc,            \* history: value last associated with each present key
  rehomed,          \* history: stored keys a displacement has evicted since their insert
  clean,            \* history: no precondition was violated, no insert threw
  n_ok,             \* history: inserts that returned without error
  n_erase,          \* history: erase calls
  n_calls,          \* history: calls made so far
  requested,        \* history: the capacity handed to the constructor
  walked,           \* history: the buckets the last insert's walk has visited
  victims,          \* history: the lanes displacements have hit, per bucket and lately
  exits_,           \* thread_pool::exits_: worker index -> exit flag
  threads_,         \* thread_pool::threads_: worker index -> "joinable" / "joined"
  jobs_,            \* thread_pool::jobs_: worker index -> queue of jobs
  mutexes_,         \* thread_pool::mutexes_: worker index -> owner of the mutex
  wpc,              \* position of each worker thread in thread_pool::worker
  job,              \* thread_pool::worker()::job of each worker thread
  cpc,              \* the caller's pending thread_pool call and its position
  queued,           \* history: worker index -> the jobs queued on it, in order
  executed,         \* history: the jobs run so far, in order, with their runner
  pool_last,        \* history: the caller's last finished thread_pool call
  n_pool_calls,     \* history: queue and kill calls made so far
  main,             \* run_test: position of the main thread
  results,          \* run_test::results: element index -> cursor
  lookup,           \* run_test: the state of each lookup thread
  writers           \* history: element index -> the threads that wrote it

vars == << hash_fn, num_buckets_, bucket_bitmask_, buckets_, sz_, curr_idx, pc,
           frame, last, at_entry, present, assoc, rehomed, clean, n_ok,
           n_erase, n_calls, requested, walked, victims, exits_, threads_, jobs_, mutexes_,
           wpc, job, cpc, queued, executed, pool_last, n_pool_calls, main, results,
           lookup, writers >>

table_vars == << hash_fn, num_buckets_, bucket_bitmask_, buckets_, sz_,
                 curr_idx, pc, frame, last, at_entry, present, assoc, rehomed,
                 clean, n_ok, n_erase, n_calls, requested,
                 walked, victims >>

pool_vars == << exits_, threads_, jobs_, mutexes_, wpc, job, cpc, queued,
                executed, pool_last, n_pool_calls >>

bench_vars == << main, results, lookup, writers >>

\* --------------------------------------------------------- hash strategy
\* A hash that spreads the keys unevenly over the buckets, so that some keys
\* have equal home buckets and others two different ones.
MixTable == << 0, 2, 4, 4, 2, 5, 1, 1 >>

MixHash == [x \in Word |-> MixTable[(x % Len(MixTable)) + 1]]

\* A degenerate hash: the first SLOTS_PER_BUCKET + 1 keys all hash to 0, so
\* that they share one bucket as both of their homes and overfill it.
BlockHash == [x \in Word |-> x \div (SLOTS_PER_BUCKET + 1)]

\* std::hash on an integer: the identity
StdHash == [x \in Word |-> x]

\* A hash that sends every small key to bucket 0 first and spreads their
\* second home buckets
SpreadTable == << 0, 4, 4, 4, 0, 1, 2, 3 >>
SpreadHash == [x \in Word |-> SpreadTable[(x % Len(SpreadTable)) + 1]]

\* A hash that sends each block of SLOTS_PER_BUCKET consecutive keys to one
\* bucket and gives every key of the first blocks two different home buckets
PairHash ==
  [x \in Word |-> ((x \div SLOTS_PER_BUCKET) + SLOTS_PER_BUCKET) % WordMod]

\* The strategies explored
HashFns == { StdHash, BlockHash, MixHash }

hash_key(key) == hash_fn[key]
get_bucket_id(h) == BitAnd(h, bucket_bitmask_)

\* Mutant: h ^ k is masked without being hashed again
get_other_bucket_id_unhashed(h, k) == BitAnd(BitXor(h, k), bucket_bitmask_)

get_other_bucket_id(h, k) == BitAnd(hash_fn[BitXor(h, k)], bucket_bitmask_)

\* ---------------------------------------------------------- construction
SizeMod == Pow2(SizeBits)
\* x >> n on a SizeBits wide word
ShiftRight(x, n) == IF n >= SizeBits THEN 0 ELSE x \div Pow2(n)

next_pow2(x) ==
  LET x0 == (x - 1 + SizeMod) % SizeMod
      x1 == BitOr(x0, ShiftRight(x0, 1))
      x2 == BitOr(x1, ShiftRight(x1, 2))
      x3 == BitOr(x2, ShiftRight(x2, 4))
      x4 == BitOr(x3, ShiftRight(x3, 8))
      x5 == BitOr(x4, ShiftRight(x4, 16))
      x6 == BitOr(x5, ShiftRight(x5, 32))
  IN (x6 + 1) % SizeMod

EmptyBucket ==
  [key_slots |-> [i \in Slots |-> NULL_KEY],
   value_slots |-> [i \in Slots |-> NULL_VALUE]]

NullIt == [bucket_ |-> nullptr, slot_idx_ |-> NULL_SLOT_IDX]
is_null(it) == it.slot_idx_ = NULL_SLOT_IDX

NoCall == [op |-> "none", key |-> NULL_KEY, value |-> NULL_VALUE, res |-> "none"]
NoFrame == [bucket_id |-> 0, key |-> NULL_KEY, value |-> NULL_VALUE, curr_depth |-> 0]

\* The displacements made so far: the lanes hit in each bucket, the number of
\* displacements applied to each bucket (counted up to SLOTS_PER_BUCKET) and
\* the lanes of the last SLOTS_PER_BUCKET displacements of any bucket.
NoVictims(bs) ==
  [lanes |-> [b \in DOMAIN bs |-> {}], hits |-> [b \in DOMAIN bs |-> 0],
   recent |-> << >>]

LastLanes(seq) ==
  IF Len(seq) > SLOTS_PER_BUCKET THEN Tail(seq) ELSE seq

Displacement(v, bucket_id, disp_idx) ==
  [lanes |-> [v.lanes EXCEPT ![bucket_id] = @ \cup {disp_idx}],
   hits |-> [v.hits EXCEPT ![bucket_id] =
               IF @ < SLOTS_PER_BUCKET THEN @ + 1 ELSE @],
   recent |-> LastLanes(Append(v.recent, disp_idx))]

\* cuckoo_table(capacity): the state after construction
Constructed(capacity) ==
  /\ num_buckets_ = next_pow2(capacity) \div SLOTS_PER_BUCKET
  /\ bucket_bitmask_ = (num_buckets_ - 1 + SizeMod) % SizeMod
  /\ buckets_ = [b \in 0 .. (num_buckets_ - 1) |-> EmptyBucket]
  /\ sz_ = 0
  /\ curr_idx = 0
  /\ pc = "idle"
  /\ frame = NoFrame
  /\ last = NoCall
  /\ at_entry = buckets_
  /\ present = {}
  /\ assoc = [k \in Keys |-> NULL_VALUE]
  /\ rehomed = {}
  /\ clean = TRUE
  /\ n_ok = 0
  /\ n_erase = 0
  /\ n_calls = 0
  /\ requested = capacity
  /\ walked = {}
  /\ victims = NoVictims(buckets_)

\* No call of the thread pool is pending
NoPoolCall == [op |-> "none", index |-> -1, at |-> "idle", job |-> 0]

\* thread_pool(num_threads): the state after construction, every worker
\* thread at the top of its loop
PoolConstructed(num_threads) ==
  /\ exits_ = [i \in 0 .. (num_threads - 1) |-> FALSE]
  /\ threads_ = [i \in 0 .. (num_threads - 1) |-> "joinable"]
  /\ jobs_ = [i \in 0 .. (num_threads - 1) |-> << >>]
  /\ mutexes_ = [i \in 0 .. (num_threads - 1) |-> "free"]
  /\ wpc = [i \in 0 .. (num_threads - 1) |-> "lock"]
  /\ job = [i \in 0 .. (num_threads - 1) |-> 0]
  /\ cpc = NoPoolCall
  /\ queued = [i \in 0 .. (num_threads - 1) |-> << >>]
  /\ executed = << >>
  /\ pool_last = [op |-> "none", index |-> -1, res |-> "none"]
  /\ n_pool_calls = 0

\* A program that uses the table without a thread pool
NoPool == PoolConstructed(0)

\* A program other than run_test: no lookup threads, no result array
NoBench ==
  /\ main = "none"
  /\ results = << >>
  /\ lookup = << >>
  /\ writers = << >>

Init ==
  /\ hash_fn \in HashFns
  /\ Constructed(Capacity)
  /\ NoPool
  /\ NoBench

\* ---------------------------------------------------------------- Bucket
is_empty(key) == key = NULL_KEY

\* Bucket::update
Bucket_update(b, i, key, value) ==
  [key_slots |-> [b.key_slots EXCEPT ![i] = key],
   value_slots |-> [b.value_slots EXCEPT ![i] = value]]

\* Mutant: the erase that resets the value and forgets the key
Bucket_erase_keeps_key(b, i) ==
  [key_slots |-> b.key_slots,
   value_slots |-> [b.value_slots EXCEPT ![i] = NULL_VALUE]]

\* Bucket::erase
Bucket_erase(b, i) ==
  [key_slots |-> [b.key_slots EXCEPT ![i] = NULL_KEY],
   value_slots |-> [b.value_slots EXCEPT ![i] = NULL_VALUE]]

\* __builtin_ctz of a non-zero mask
RECURSIVE ctz(_)
ctz(mask) == IF mask % 2 = 1 THEN 0 ELSE 1 + ctz(mask \div 2)

RECURSIVE SumLanes(_, _)
SumLanes(f, i) == IF i >= SLOTS_PER_BUCKET THEN 0 ELSE f[i] + SumLanes(f, i + 1)

\* Bucket::find_simd of the map variant: every lane's compare result shifted
\* down to one bit (m_all), shifted left by its lane number, the lanes added
\* up (mask), and the lowest set bit taken.
Bucket_find_simd(bs, bid, key) ==
  LET m_all == [i \in Slots |-> IF bs[bid].key_slots[i] = key THEN 1 ELSE 0]
      m_all_weighted == [i \in Slots |-> m_all[i] * Pow2(i)]
      mask == SumLanes(m_all_weighted, 0)
  IN IF mask # 0 THEN [bucket_ |-> bid, slot_idx_ |-> ctz(mask)] ELSE NullIt

\* Bucket::find_simd of the set variant: the lane ladder, first match wins
RECURSIVE LaneLadder(_, _, _)
LaneLadder(eq, bid, i) ==
  IF i >= SLOTS_PER_BUCKET THEN NullIt
  ELSE IF eq[i] THEN [bucket_ |-> bid, slot_idx_ |-> i]
  ELSE LaneLadder(eq, bid, i + 1)

Bucket_find_simd_set(bs, bid, key) ==
  LET eq == [i \in Slots |-> bs[bid].key_slots[i] = key]
  IN LaneLadder(eq, bid, 0)

\* Bucket::insert, the loop from slot i on.  ret is "true", "false" or
\* "throw" (tried to insert existing key); bucket is the bucket afterwards.
RECURSIVE Bucket_insert_from(_, _, _, _)
Bucket_insert_from(b, key, value, i) ==
  IF i >= SLOTS_PER_BUCKET THEN [ret |-> "false", bucket |-> b]
  ELSE IF is_empty(b.key_slots[i])
       THEN [ret |-> "true", bucket |-> Bucket_update(b, i, key, value)]
  ELSE IF b.key_slots[i] = key THEN [ret |-> "throw", bucket |-> b]
  ELSE Bucket_insert_from(b, key, value, i + 1)

\* Mutant: a full bucket takes the key into its first slot and reports success
Bucket_insert_into_full(b, key, value) ==
  LET r == Bucket_insert_from(b, key, value, 0)
  IN IF r.ret = "false"
     THEN [ret |-> "true", bucket |-> Bucket_update(b, 0, key, value)]
     ELSE r

Bucket_insert(b, key, value) == Bucket_insert_from(b, key, value, 0)

\* Bucket::get_random_displace_idx: curr_idx++, then curr_idx & (SLOTS - 1).
\* Only the low bits of the counter are ever read and the counter wraps at a
\* multiple of SLOTS_PER_BUCKET, so the low bits are what is kept.
next_curr_idx(c) == (c + 1) % SLOTS_PER_BUCKET
get_random_displace_idx(c) == BitAnd(next_curr_idx(c), SLOTS_PER_BUCKET - 1)

\* Mutant: the tenant is handed back but the new key is not written
Bucket_displace_insert_no_write(b, key, value, disp_idx) ==
  [to_displace |-> << b.key_slots[disp_idx], b.value_slots[disp_idx] >>,
   bucket |-> b]

\* Mutant: the tenant's key is handed back with the incoming value
Bucket_displace_insert_wrong_value(b, key, value, disp_idx) ==
  [to_displace |-> << b.key_slots[disp_idx], value >>,
   bucket |-> Bucket_update(b, disp_idx, key, value)]

\* Mutant: the tenant of the next slot is handed back instead of the tenant
\* that was overwritten
Bucket_displace_insert_wrong_victim(b, key, value, disp_idx) ==
  LET other == (disp_idx + 1) % SLOTS_PER_BUCKET
  IN [to_displace |-> << b.key_slots[other], b.value_slots[other] >>,
      bucket |-> Bucket_update(b, disp_idx, key, value)]

\* Bucket::displace_insert with the victim slot disp_idx
Bucket_displace_insert(b, key, value, disp_idx) ==
  [to_displace |-> << b.key_slots[disp_idx], b.value_slots[disp_idx] >>,
   bucket |-> Bucket_update(b, disp_idx, key, value)]

\* ----------------------------------------------------------------- find
\* Mutant: the find that probes the first home bucket only
find_in_primary_only(bs, key) ==
  Bucket_find_simd(bs, get_bucket_id(hash_key(key)), key)

\* cuckoo_table::find on the bucket array bs
find_in(bs, key) ==
  LET hash == hash_key(key)
      bucket_id1 == get_bucket_id(hash)
      it == Bucket_find_simd(bs, bucket_id1, key)
  IN IF ~is_null(it) THEN it
     ELSE Bucket_find_simd(bs, get_other_bucket_id(hash, key), key)

find(key) == find_in(buckets_, key)

\* cuckoo_set::find
find_set(key) ==
  LET hash == hash_key(key)
      bucket_id1 == get_bucket_id(hash)
      it == Bucket_find_simd_set(buckets_, bucket_id1, key)
  IN IF ~is_null(it) THEN it
     ELSE Bucket_find_simd_set(buckets_, get_other_bucket_id(hash, key), key)

\* cuckoo_table::find_batched (map variant): both bucket ids of every key
\* are computed first, then every key is probed.  keys is the window
\* keys[0 .. num_keys - 1], held as a sequence.
find_batched(keys) ==
  LET num_keys == Len(keys)
      bucket_id1s == [i \in 1 .. num_keys |-> get_bucket_id(hash_key(keys[i]))]
      bucket_id2s == [i \in 1 .. num_keys |->
                        get_other_bucket_id(hash_key(keys[i]), keys[i])]
      first == [i \in 1 .. num_keys |->
                  Bucket_find_simd(buckets_, bucket_id1s[i], keys[i])]
  IN [i \in 1 .. num_keys |->
        IF is_null(first[i])
        THEN Bucket_find_simd(buckets_, bucket_id2s[i], keys[i])
        ELSE first[i]]

\* Mutant: the secondary bucket id is derived from the masked bucket id
\* instead of the retained raw hash
find_batched_set_masked_hash(keys) ==
  LET num_keys == Len(keys)
      raw_hashes == [i \in 1 .. num_keys |-> hash_key(keys[i])]
      bucket_id1s == [i \in 1 .. num_keys |-> get_bucket_id(raw_hashes[i])]
      first == [i \in 1 .. num_keys |->
                  Bucket_find_simd_set(buckets_, bucket_id1s[i], keys[i])]
      bucket_id2s == [i \in 1 .. num_keys |->
                        IF ~is_null(first[i]) THEN raw_hashes[i]
                        ELSE get_other_bucket_id(bucket_id1s[i], keys[i])]
  IN [i \in 1 .. num_keys |->
        IF ~is_null(first[i]) THEN first[i]
        ELSE Bucket_find_simd_set(buckets_, bucket_id2s[i], keys[i])]

\* cuckoo_set::find_batched (set variant): bucket_id2s first holds the raw
\* hash; it is overwritten by the secondary bucket id for the misses only.
find_batched_set(keys) ==
  LET num_keys == Len(keys)
      raw_hashes == [i \in 1 .. num_keys |-> hash_key(keys[i])]
      bucket_id1s == [i \in 1 .. num_keys |-> get_bucket_id(raw_hashes[i])]
      first == [i \in 1 .. num_keys |->
                  Bucket_find_simd_set(buckets_, bucket_id1s[i], keys[i])]
      bucket_id2s == [i \in 1 .. num_keys |->
                        IF ~is_null(first[i]) THEN raw_hashes[i]
                        ELSE get_other_bucket_id(raw_hashes[i], keys[i])]
  IN [i \in 1 .. num_keys |->
        IF ~is_null(first[i]) THEN first[i]
        ELSE Bucket_find_simd_set(buckets_, bucket_id2s[i], keys[i])]

\* iterator::key(), iterator::value()
it_key(bs, it) == bs[it.bucket_].key_slots[it.slot_idx_]
it_value(bs, it) == bs[it.bucket_].value_slots[it.slot_idx_]

\* ------------------------------------------------------- insert and erase
\* The slots <<bucket, slot>> of the bucket array bs, and what they hold
AllSlots(bs) == (DOMAIN bs) \X Slots
SlotsOf(bs, key) == { s \in AllSlots(bs) : bs[s[1]].key_slots[s[2]] = key }
StoredKeys(bs) == { bs[s[1]].key_slots[s[2]] : s \in AllSlots(bs) } \ {NULL_KEY}

\* The history after an insert call of (key, value) that ended with res
\* ("ok": returned, "dup": tried to insert existing key, "cap": cannot find
\* insertion slot).
InsertReturns(key, value, res) ==
  /\ pc' = "idle"
  /\ frame' = NoFrame
  /\ last' = [op |-> "insert", key |-> key, value |-> value, res |-> res]
  /\ n_ok' = IF res = "ok" THEN n_ok + 1 ELSE n_ok
  /\ present' = IF res = "ok" THEN present \cup {key} ELSE present
  /\ assoc' = IF res = "ok" THEN [assoc EXCEPT ![key] = value] ELSE assoc

\* cuckoo_table::insert up to its return, its throw or its call of
\* displace_insert(bucket_id1, key, value, 0)
insert(key, value) ==
  /\ pc = "idle"
  /\ LET hash == hash_key(key)
         bucket_id1 == get_bucket_id(hash)
         bucket_id2 == get_other_bucket_id(hash, key)
         r1 == Bucket_insert(buckets_[bucket_id1], key, value)
         r2 == Bucket_insert(buckets_[bucket_id2], key, value)
         respected == key \notin StoredKeys(buckets_)
     IN /\ sz_' = sz_ + 1
        /\ n_calls' = n_calls + 1
        /\ at_entry' = buckets_
        /\ walked' = {}
        /\ victims' = victims
        /\ UNCHANGED << hash_fn, num_buckets_, bucket_bitmask_, curr_idx, n_erase,
                        rehomed, requested,
                        pool_vars, bench_vars >>
        /\ IF r1.ret = "true"
           THEN /\ buckets_' = [buckets_ EXCEPT ![bucket_id1] = r1.bucket]
                /\ clean' = (clean /\ respected)
                /\ InsertReturns(key, value, "ok")
           ELSE IF r1.ret = "throw"
           THEN /\ buckets_' = buckets_
                /\ clean' = FALSE
                /\ InsertReturns(key, value, "dup")
           ELSE IF r2.ret = "true"
           THEN /\ buckets_' = [buckets_ EXCEPT ![bucket_id2] = r2.bucket]
                /\ clean' = (clean /\ respected)
                /\ InsertReturns(key, value, "ok")
           ELSE IF r2.ret = "throw"
           THEN /\ buckets_' = buckets_
                /\ clean' = FALSE
                /\ InsertReturns(key, value, "dup")
           ELSE /\ buckets_' = buckets_
                /\ clean' = (clean /\ respected)
                /\ pc' = "walk"
                /\ frame' = [bucket_id |-> bucket_id1, key |-> key,
                             value |-> value, curr_depth |-> 0]
                /\ last' = [op |-> "insert", key |-> key, value |-> value,
                            res |-> "walk"]
                /\ UNCHANGED << n_ok, present, assoc >>

\* cuckoo_table::displace_insert(bucket_id, key, value, curr_depth): one call
\* of the recursion, up to its return, its throw or its recursive call
displace_insert ==
  /\ pc = "walk"
  /\ UNCHANGED << hash_fn, num_buckets_, bucket_bitmask_, sz_, at_entry,
                  n_erase, n_calls, requested,
                  pool_vars, bench_vars >>
  /\ IF frame.curr_depth >= MAX_INSERT_DEPTH
     THEN /\ UNCHANGED << buckets_, curr_idx, rehomed, walked, victims >>
          /\ clean' = FALSE
          /\ InsertReturns(last.key, last.value, "cap")
     ELSE LET disp_idx == get_random_displace_idx(curr_idx)
              d == Bucket_displace_insert(buckets_[frame.bucket_id], frame.key,
                                          frame.value, disp_idx)
              displaced_slot == d.to_displace
              displaced == [buckets_ EXCEPT ![frame.bucket_id] = d.bucket]
              hash == hash_key(displaced_slot[1])
              bucket_id1 == get_bucket_id(hash)
              bucket_id2 == get_other_bucket_id(hash, displaced_slot[1])
              nxt_bucket_id == IF bucket_id1 = frame.bucket_id
                               THEN bucket_id2 ELSE bucket_id1
              r == Bucket_insert(displaced[nxt_bucket_id], displaced_slot[1],
                                 displaced_slot[2])
          IN /\ curr_idx' = next_curr_idx(curr_idx)
             /\ rehomed' = rehomed \cup {displaced_slot[1]}
             /\ walked' = walked \cup {frame.bucket_id, nxt_bucket_id}
             /\ victims' = Displacement(victims, frame.bucket_id, disp_idx)
             /\ IF r.ret = "true"
                THEN /\ buckets_' = [displaced EXCEPT ![nxt_bucket_id] = r.bucket]
                     /\ clean' = clean
                     /\ InsertReturns(last.key, last.value, "ok")
                ELSE IF r.ret = "throw"
                THEN /\ buckets_' = displaced
                     /\ clean' = FALSE
                     /\ InsertReturns(last.key, last.value, "dup")
                ELSE /\ buckets_' = displaced
                     /\ frame' = [bucket_id |-> nxt_bucket_id,
                                  key |-> displaced_slot[1],
                                  value |-> displaced_slot[2],
                                  curr_depth |-> frame.curr_depth + 1]
                     /\ UNCHANGED << pc, last, clean, n_ok, present, assoc >>

\* cuckoo_table::erase(find(key)), for a key that find finds
erase(key) ==
  /\ pc = "idle"
  /\ LET it == find(key)
     IN /\ ~is_null(it)
        /\ sz_' = sz_ - 1
        /\ buckets_' = [buckets_ EXCEPT
                          ![it.bucket_] = Bucket_erase(buckets_[it.bucket_], it.slot_idx_)]
  /\ n_erase' = n_erase + 1
  /\ n_calls' = n_calls + 1
  /\ present' = present \ {key}
  /\ rehomed' = rehomed \ {key}
  /\ assoc' = [assoc EXCEPT ![key] = NULL_VALUE]
  /\ last' = [op |-> "erase", key |-> key, value |-> NULL_VALUE, res |-> "ok"]
  /\ at_entry' = buckets_'
  /\ UNCHANGED << hash_fn, num_buckets_, bucket_bitmask_, curr_idx, pc, frame,
                  clean, n_ok, requested, walked, victims,
                  pool_vars, bench_vars >>

\* find(key).value() = value: a write through the cursor (map variant)
write_value(key, value) ==
  /\ pc = "idle"
  /\ LET it == find(key)
     IN /\ ~is_null(it)
        /\ buckets_' = [buckets_ EXCEPT
                          ![it.bucket_].value_slots[it.slot_idx_] = value]
  /\ n_calls' = n_calls + 1
  /\ assoc' = [assoc EXCEPT ![key] = value]
  /\ last' = [op |-> "write", key |-> key, value |-> value, res |-> "ok"]
  /\ at_entry' = buckets_'
  /\ UNCHANGED << hash_fn, num_buckets_, bucket_bitmask_, sz_, curr_idx, pc, frame,
                  present, rehomed, clean, n_ok, n_erase, requested, walked, victims,
                  pool_vars, bench_vars >>

\* The set variant: no payload travels with a key
NoPayload == NULL_VALUE

\* A caller makes at most MaxOps calls
Next ==
  \/ \E k \in Keys : n_calls < MaxOps /\ insert(k, NoPayload)
  \/ displace_insert
  \/ \E k \in Keys : n_calls < MaxOps /\ erase(k)

Spec == Init /\ [][Next]_vars

\* The runs under the colliding hash, one call longer: a bucket is filled,
\* a key is erased and inserted again, and a further insert walks
InitCollide ==
  /\ hash_fn = BlockHash
  /\ Constructed(Capacity)
  /\ NoPool
  /\ NoBench

NextCollide ==
  \/ \E k \in Keys : n_calls < MaxCollideOps /\ insert(k, NoPayload)
  \/ displace_insert
  \/ \E k \in Keys : n_calls < MaxCollideOps /\ erase(k)

SpecCollide == InitCollide /\ [][NextCollide]_vars

\* The runs under the hashes that spread the keys over the buckets: the
\* batched lookups are checked on these
InitLookup ==
  /\ hash_fn \in {StdHash, MixHash}
  /\ Constructed(Capacity)
  /\ NoPool
  /\ NoBench

\* A caller makes at most MaxLookupOps calls
NextLookup ==
  \/ \E k \in Keys : n_calls < MaxLookupOps /\ insert(k, NoPayload)
  \/ displace_insert
  \/ \E k \in Keys : n_calls < MaxLookupOps /\ erase(k)

SpecLookup == InitLookup /\ [][NextLookup]_vars

\* The map variant: a payload travels with each key and can be rewritten
\* through a cursor.  A caller inserts key k with the payload FirstValue(k)
\* and rewrites it to any value later, so that neighbouring keys carry
\* different values and every association of keys with values is reached by
\* an insert followed by a write.
FirstValue(k) == k % (MaxValue + 1)

InitMap ==
  /\ hash_fn = MixHash
  /\ Constructed(Capacity)
  /\ NoPool
  /\ NoBench

NextMap ==
  \/ \E k \in Keys : n_calls < MaxMapOps /\ insert(k, FirstValue(k))
  \/ displace_insert
  \/ \E k \in Keys : n_calls < MaxMapOps /\ erase(k)
  \/ \E k \in Keys, v \in Values : n_calls < MaxMapOps /\ write_value(k, v)

SpecMap == InitMap /\ [][NextMap]_vars

\* A table of four buckets under the spreading hash: a walk leaves buckets
\* unvisited
InitFrame ==
  /\ hash_fn = SpreadHash
  /\ Constructed(SLOTS_PER_BUCKET * SLOTS_PER_BUCKET)
  /\ NoPool
  /\ NoBench

SpecFrame == InitFrame /\ [][Next]_vars

\* ------------------------------------------- tables of every capacity
\* The capacities handed to the constructor: the small ones and the largest
\* value of size_t
Capacities == (1 .. MaxCapacity) \cup {SizeMod - 1}

\* buckets_[bucket_id] lies inside the array that allocate(num_buckets_)
\* returned
InBounds(bucket_id) == bucket_id \in DOMAIN buckets_

\* What a build can do with an access outside the bucket array: the process
\* is stopped by a fault, or foreign memory is read and written and the call
\* goes on with it.  Nothing is known about the table afterwards and no
\* further call is explored.
UndefinedOutcomes == {"fault", "wild"}

\* cuckoo_table::insert on a table whose bucket id for key lies outside the
\* bucket array: sz_++, then bucket1.insert reads buckets_[bucket_id1]
out_of_bounds(key) ==
  /\ pc = "idle"
  /\ ~InBounds(get_bucket_id(hash_key(key)))
  /\ pc' \in UndefinedOutcomes
  /\ sz_' = sz_ + 1
  /\ n_calls' = n_calls + 1
  /\ at_entry' = buckets_
  /\ clean' = FALSE
  /\ last' = [op |-> "insert", key |-> key, value |-> NoPayload,
              res |-> "undefined"]
  /\ UNCHANGED << hash_fn, num_buckets_, bucket_bitmask_, buckets_, curr_idx,
                  frame, present, assoc, rehomed, n_ok, n_erase, requested, walked, victims,
                  pool_vars, bench_vars >>

\* cuckoo_table::insert of a key that is not stored, by a caller that makes
\* at most one call more than the table has slots
insert_new(key) ==
  /\ InBounds(get_bucket_id(hash_key(key)))
  /\ InBounds(get_other_bucket_id(hash_key(key), key))
  /\ key \notin StoredKeys(buckets_)
  /\ n_calls <= num_buckets_ * SLOTS_PER_BUCKET
  /\ insert(key, NoPayload)

InitCtor ==
  /\ hash_fn = StdHash
  /\ \E capacity \in Capacities : Constructed(capacity)
  /\ NoPool
  /\ NoBench

NextCtor ==
  \/ \E k \in Keys : insert_new(k)
  \/ displace_insert
  \/ \E k \in Keys : out_of_bounds(k)

SpecCtor == InitCtor /\ [][NextCtor]_vars

\* A caller that fills the table with the keys 0, 1, 2, ... in order and
\* inserts one key more than the table has slots
insert_next == insert_new(n_calls)

InitChurn ==
  /\ hash_fn \in {PairHash, BlockHash}
  /\ Constructed(Capacity)
  /\ NoPool
  /\ NoBench

NextChurn ==
  \/ insert_next
  \/ displace_insert

SpecChurn == InitChurn /\ [][NextChurn]_vars

\* ------------------------------------------------------------ thread pool
\* The caller is one thread: it makes one call of queue or kill at a time.
\* A worker is at "lock" (about to lock its mutex), "wait" (holds the mutex,
\* in conditions_[index].wait), "blocked" (inside wait, mutex released),
\* "relock" (woken, about to lock again), "take" (wait has returned), "run"
\* (about to call job()) or "done" (worker() has returned).
Workers == DOMAIN threads_

Returns(op, index, res) ==
  /\ cpc' = NoPoolCall
  /\ pool_last' = [op |-> op, index |-> index, res |-> res]

\* Mutant: the notification wakes nobody
notify_nobody(index) == wpc

\* conditions_[index].notify_one() / notify_all(): the only thread that waits
\* on conditions_[index] is worker index
notify(index) ==
  IF wpc[index] = "blocked" THEN [wpc EXCEPT ![index] = "relock"] ELSE wpc

\* The jobs queued so far; the caller numbers them 1, 2, ... as it queues them
QueuedJobs == UNION { { queued[i][n] : n \in 1 .. Len(queued[i]) } : i \in Workers }

\* thread_pool::queue(index, job): the call, up to the lock
queue(index) ==
  /\ cpc.at = "idle"
  /\ index \in Workers
  /\ n_pool_calls < MaxPoolCalls
  /\ n_pool_calls' = n_pool_calls + 1
  /\ cpc' = [op |-> "queue", index |-> index, at |-> "lock",
             job |-> Cardinality(QueuedJobs) + 1]
  /\ UNCHANGED << exits_, threads_, jobs_, mutexes_, wpc, job, queued,
                  executed, pool_last, table_vars, bench_vars >>

\* queue: std::unique_lock lock(mutexes_[index])
queue_lock ==
  /\ cpc.op = "queue" /\ cpc.at = "lock"
  /\ mutexes_[cpc.index] = "free"
  /\ mutexes_' = [mutexes_ EXCEPT ![cpc.index] = "caller"]
  /\ cpc' = [cpc EXCEPT !.at = "push"]
  /\ UNCHANGED << exits_, threads_, jobs_, wpc, job, queued, executed,
                  pool_last, n_pool_calls, table_vars, bench_vars >>

\* queue: jobs_[index].push(job), then the lock goes out of scope
queue_push ==
  /\ cpc.op = "queue" /\ cpc.at = "push"
  /\ jobs_' = [jobs_ EXCEPT ![cpc.index] = Append(@, cpc.job)]
  /\ queued' = [queued EXCEPT ![cpc.index] = Append(@, cpc.job)]
  /\ mutexes_' = [mutexes_ EXCEPT ![cpc.index] = "free"]
  /\ cpc' = [cpc EXCEPT !.at = "notify"]
  /\ UNCHANGED << exits_, threads_, wpc, job, executed, pool_last, n_pool_calls,
                  table_vars, bench_vars >>

\* queue: conditions_[index].notify_one(), and the return
queue_notify ==
  /\ cpc.op = "queue" /\ cpc.at = "notify"
  /\ wpc' = notify(cpc.index)
  /\ Returns("queue", cpc.index, "ok")
  /\ UNCHANGED << exits_, threads_, jobs_, mutexes_, job, queued, executed,
                  n_pool_calls, table_vars, bench_vars >>

\* thread_pool::kill(index) with index >= 0: the call, up to the lock
kill(index) ==
  /\ cpc.at = "idle"
  /\ index \in Workers
  /\ n_pool_calls < MaxPoolCalls
  /\ n_pool_calls' = n_pool_calls + 1
  /\ cpc' = [op |-> "kill", index |-> index, at |-> "lock", job |-> 0]
  /\ UNCHANGED << exits_, threads_, jobs_, mutexes_, wpc, job, queued,
                  executed, pool_last, table_vars, bench_vars >>

\* thread_pool::kill(): the call, up to the lock of the loop's first round
kill_all ==
  /\ cpc.at = "idle"
  /\ Workers # {}
  /\ n_pool_calls < MaxPoolCalls
  /\ n_pool_calls' = n_pool_calls + 1
  /\ cpc' = [op |-> "kill_all", index |-> 0, at |-> "lock", job |-> 0]
  /\ UNCHANGED << exits_, threads_, jobs_, mutexes_, wpc, job, queued,
                  executed, pool_last, table_vars, bench_vars >>

\* kill: std::unique_lock lock(mutexes_[index])
kill_lock ==
  /\ cpc.op \in {"kill", "kill_all"} /\ cpc.at = "lock"
  /\ mutexes_[cpc.index] = "free"
  /\ mutexes_' = [mutexes_ EXCEPT ![cpc.index] = "caller"]
  /\ cpc' = [cpc EXCEPT !.at = "set"]
  /\ UNCHANGED << exits_, threads_, jobs_, wpc, job, queued, executed,
                  pool_last, n_pool_calls, table_vars, bench_vars >>

\* kill: exits_[index] = true, then the lock goes out of scope
kill_set ==
  /\ cpc.op \in {"kill", "kill_all"} /\ cpc.at = "set"
  /\ exits_' = [exits_ EXCEPT ![cpc.index] = TRUE]
  /\ mutexes_' = [mutexes_ EXCEPT ![cpc.index] = "free"]
  /\ cpc' = [cpc EXCEPT !.at = "notify"]
  /\ UNCHANGED << threads_, jobs_, wpc, job, queued, executed, pool_last,
                  n_pool_calls, table_vars, bench_vars >>

\* kill: conditions_[index].notify_all()
kill_notify ==
  /\ cpc.op \in {"kill", "kill_all"} /\ cpc.at = "notify"
  /\ wpc' = notify(cpc.index)
  /\ cpc' = [cpc EXCEPT !.at = "join"]
  /\ UNCHANGED << exits_, threads_, jobs_, mutexes_, job, queued, executed,
                  pool_last, n_pool_calls, table_vars, bench_vars >>

\* kill: threads_[index].join().  join() of a joinable thread returns once
\* worker() has returned; join() of a thread that was joined before throws
\* std::system_error, which leaves kill.  After the join kill(index) returns
\* and kill() goes on with the next index.
kill_join ==
  /\ cpc.op \in {"kill", "kill_all"} /\ cpc.at = "join"
  /\ IF threads_[cpc.index] = "joined"
     THEN /\ Returns(cpc.op, cpc.index, "throw")
          /\ UNCHANGED threads_
     ELSE /\ wpc[cpc.index] = "done"
          /\ threads_' = [threads_ EXCEPT ![cpc.index] = "joined"]
          /\ IF cpc.op = "kill_all" /\ cpc.index + 1 \in Workers
             THEN /\ cpc' = [cpc EXCEPT !.index = cpc.index + 1, !.at = "lock"]
                  /\ UNCHANGED pool_last
             ELSE Returns(cpc.op, cpc.index, "ok")
  /\ UNCHANGED << exits_, jobs_, mutexes_, wpc, job, queued, executed,
                  n_pool_calls, table_vars, bench_vars >>

\* worker: std::unique_lock lock(mutexes_[index]), and the lock that wait
\* takes again after a wake-up
worker_lock(index) ==
  /\ wpc[index] \in {"lock", "relock"}
  /\ mutexes_[index] = "free"
  /\ mutexes_' = [mutexes_ EXCEPT ![index] = "worker"]
  /\ wpc' = [wpc EXCEPT ![index] = "wait"]
  /\ UNCHANGED << exits_, threads_, jobs_, job, cpc, queued, executed,
                  pool_last, n_pool_calls, table_vars, bench_vars >>

\* worker: conditions_[index].wait(lock, pred): with the mutex held the
\* predicate is tested; wait returns when it holds, otherwise the mutex is
\* released and the thread blocks
worker_wait(index) ==
  /\ wpc[index] = "wait"
  /\ IF jobs_[index] # << >> \/ exits_[index]
     THEN /\ wpc' = [wpc EXCEPT ![index] = "take"]
          /\ UNCHANGED mutexes_
     ELSE /\ wpc' = [wpc EXCEPT ![index] = "blocked"]
          /\ mutexes_' = [mutexes_ EXCEPT ![index] = "free"]
  /\ UNCHANGED << exits_, threads_, jobs_, job, cpc, queued, executed,
                  pool_last, n_pool_calls, table_vars, bench_vars >>

\* A condition variable may wake a waiting thread without a notification
spurious_wakeup(index) ==
  /\ wpc[index] = "blocked"
  /\ wpc' = [wpc EXCEPT ![index] = "relock"]
  /\ UNCHANGED << exits_, threads_, jobs_, mutexes_, job, cpc, queued,
                  executed, pool_last, n_pool_calls, table_vars, bench_vars >>

\* worker: if (exits_[index]) return; otherwise job = front(), pop(); the
\* lock goes out of scope either way
worker_take(index) ==
  /\ wpc[index] = "take"
  /\ mutexes_' = [mutexes_ EXCEPT ![index] = "free"]
  /\ IF exits_[index]
     THEN /\ wpc' = [wpc EXCEPT ![index] = "done"]
          /\ UNCHANGED << jobs_, job >>
     ELSE /\ job' = [job EXCEPT ![index] = Head(jobs_[index])]
          /\ jobs_' = [jobs_ EXCEPT ![index] = Tail(@)]
          /\ wpc' = [wpc EXCEPT ![index] = "run"]
  /\ UNCHANGED << exits_, threads_, cpc, queued, executed, pool_last,
                  n_pool_calls, table_vars, bench_vars >>

\* worker: job()
worker_job(index) ==
  /\ wpc[index] = "run"
  /\ executed' = Append(executed, [worker |-> index, job |-> job[index]])
  /\ wpc' = [wpc EXCEPT ![index] = "lock"]
  /\ UNCHANGED << exits_, threads_, jobs_, mutexes_, job, cpc, queued,
                  pool_last, n_pool_calls, table_vars, bench_vars >>

InitPool ==
  /\ hash_fn = StdHash
  /\ Constructed(Capacity)
  /\ PoolConstructed(NumThreads)
  /\ NoBench

CallerStep ==
  \/ \E i \in Workers : queue(i)
  \/ queue_lock
  \/ queue_push
  \/ queue_notify
  \/ \E i \in Workers : kill(i)
  \/ kill_all
  \/ kill_lock
  \/ kill_set
  \/ kill_notify
  \/ kill_join

WorkerStep(index) ==
  \/ worker_lock(index)
  \/ worker_wait(index)
  \/ worker_take(index)
  \/ worker_job(index)

NextPool ==
  \/ CallerStep
  \/ \E i \in Workers : WorkerStep(i)
  \/ \E i \in Workers : spurious_wakeup(i)

SpecPool == InitPool /\ [][NextPool]_vars

\* The steps of a call the caller has entered
CallerProgress ==
  \/ queue_lock
  \/ queue_push
  \/ queue_notify
  \/ kill_lock
  \/ kill_set
  \/ kill_notify
  \/ kill_join

\* The scheduler runs every thread that can take a step: each worker thread
\* and the caller inside a call.  Nothing makes the caller start a call and
\* nothing makes a condition variable wake up spuriously.
SpecPoolFair ==
  /\ InitPool
  /\ [][NextPool]_vars
  /\ \A i \in 0 .. (NumThreads - 1) : WF_vars(WorkerStep(i))
  /\ WF_vars(CallerProgress)

\* ----------------------------------------------- thread pool construction
\* thread_pool(num_threads) step by step.  The constructor is the caller's
\* pending call: cpc.at is the statement it is about to run and cpc.index the
\* round of its loop.  A vector holds an element once the constructor has
\* run the statement that creates it; conditions_ is assigned last, so it
\* holds its elements once the constructor has returned.
Extended(f, i, v) == [j \in (DOMAIN f) \cup {i} |-> IF j = i THEN v ELSE f[j]]

conditions_created == cpc.op # "ctor"

\* No thread has run into undefined behaviour
Defined == \A i \in DOMAIN wpc : wpc[i] \notin UndefinedOutcomes

\* The constructor is entered: every vector is empty, no thread runs
Constructing ==
  /\ exits_ = << >>
  /\ threads_ = << >>
  /\ jobs_ = << >>
  /\ mutexes_ = << >>
  /\ wpc = << >>
  /\ job = << >>
  /\ cpc = [op |-> "ctor", index |-> 0, at |-> "thread", job |-> 0]
  /\ queued = << >>
  /\ executed = << >>
  /\ pool_last = [op |-> "none", index |-> -1, res |-> "none"]
  /\ n_pool_calls = 0

\* constructor: threads_.emplace_back(std::thread(&thread_pool::worker, this, i));
\* the new thread is at the top of worker(index)
ctor_thread ==
  /\ cpc.op = "ctor" /\ cpc.at = "thread"
  /\ threads_' = Extended(threads_, cpc.index, "joinable")
  /\ wpc' = Extended(wpc, cpc.index, "lock")
  /\ job' = Extended(job, cpc.index, 0)
  /\ cpc' = [cpc EXCEPT !.at = "jobs"]
  /\ UNCHANGED << exits_, jobs_, mutexes_, queued, executed, pool_last,
                  n_pool_calls, table_vars, bench_vars >>

\* constructor: jobs_.emplace_back(), and the loop's ++i and test
ctor_jobs ==
  /\ cpc.op = "ctor" /\ cpc.at = "jobs"
  /\ jobs_' = Extended(jobs_, cpc.index, << >>)
  /\ queued' = Extended(queued, cpc.index, << >>)
  /\ cpc' = IF cpc.index + 1 < NumThreads
            THEN [cpc EXCEPT !.index = cpc.index + 1, !.at = "thread"]
            ELSE [cpc EXCEPT !.at = "exits"]
  /\ UNCHANGED << exits_, threads_, mutexes_, wpc, job, executed, pool_last,
                  n_pool_calls, table_vars, bench_vars >>

\* constructor: exits_ = std::vector<bool>(num_threads, false)
ctor_exits ==
  /\ cpc.op = "ctor" /\ cpc.at = "exits"
  /\ exits_' = [i \in 0 .. (NumThreads - 1) |-> FALSE]
  /\ cpc' = [cpc EXCEPT !.at = "mutexes"]
  /\ UNCHANGED << threads_, jobs_, mutexes_, wpc, job, queued, executed,
                  pool_last, n_pool_calls, table_vars, bench_vars >>

\* constructor: mutexes_ = std::vector<std::mutex>(num_threads)
ctor_mutexes ==
  /\ cpc.op = "ctor" /\ cpc.at = "mutexes"
  /\ mutexes_' = [i \in 0 .. (NumThreads - 1) |-> "free"]
  /\ cpc' = [cpc EXCEPT !.at = "conditions"]
  /\ UNCHANGED << exits_, threads_, jobs_, wpc, job, queued, executed,
                  pool_last, n_pool_calls, table_vars, bench_vars >>

\* constructor: conditions_ = std::vector<std::condition_variable>(num_threads),
\* and the return
ctor_conditions ==
  /\ cpc.op = "ctor" /\ cpc.at = "conditions"
  /\ Returns("ctor", -1, "ok")
  /\ UNCHANGED << exits_, threads_, jobs_, mutexes_, wpc, job, queued,
                  executed, n_pool_calls, table_vars, bench_vars >>

\* worker: std::unique_lock lock(mutexes_[index]) while mutexes_ is still
\* empty: the element does not exist, the behaviour is undefined
worker_lock_early(index) ==
  /\ wpc[index] = "lock"
  /\ index \notin DOMAIN mutexes_
  /\ \E outcome \in UndefinedOutcomes : wpc' = [wpc EXCEPT ![index] = outcome]
  /\ UNCHANGED << exits_, threads_, jobs_, mutexes_, job, cpc, queued,
                  executed, pool_last, n_pool_calls, table_vars, bench_vars >>

\* worker: conditions_[index].wait(lock, pred) while conditions_ is still
\* empty: the element does not exist, the behaviour is undefined
worker_wait_early(index) ==
  /\ wpc[index] = "wait"
  /\ ~conditions_created
  /\ \E outcome \in UndefinedOutcomes : wpc' = [wpc EXCEPT ![index] = outcome]
  /\ UNCHANGED << exits_, threads_, jobs_, mutexes_, job, cpc, queued,
                  executed, pool_last, n_pool_calls, table_vars, bench_vars >>

InitPoolCtor ==
  /\ hash_fn = StdHash
  /\ Constructed(Capacity)
  /\ Constructing
  /\ NoBench

\* The constructor's statements
CtorStep ==
  \/ ctor_thread
  \/ ctor_jobs
  \/ ctor_exits
  \/ ctor_mutexes
  \/ ctor_conditions

\* A worker thread runs from the moment its std::thread is created.  Its
\* steps are those of worker() where the elements it touches exist.  After
\* undefined behaviour nothing is known and no further step is explored.
NextPoolCtor ==
  \/ Defined /\ CtorStep
  \/ Defined /\ CallerStep
  \/ \E i \in Workers : Defined /\ worker_lock_early(i)
  \/ \E i \in Workers : Defined /\ worker_wait_early(i)
  \/ \E i \in Workers : Defined /\ i \in DOMAIN mutexes_ /\ worker_lock(i)
  \/ \E i \in Workers : Defined /\ conditions_created /\ worker_wait(i)
  \/ \E i \in Workers : Defined /\ worker_take(i)
  \/ \E i \in Workers : Defined /\ worker_job(i)
  \/ \E i \in Workers : Defined /\ spurious_wakeup(i)

SpecPoolCtor == InitPoolCtor /\ [][NextPoolCtor]_vars

\* ------------------------------------------------- run_test (tests/main.cpp)
\* run_test up to the join of its lookup threads: the table is filled with
\* the keys 0 .. NUM_KEYS - 1, then NUM_WORKERS threads run find_batched on
\* their slice of the requests, window after window.  The capacity and the
\* window length are the model's; every window's keys are drawn when the
\* window is started, as read_idxs is filled with random keys.
NUM_KEYS == (Capacity * LOAD_PERCENTAGE) \div 100
BenchBatch == MaxBatch
NUM_REQUESTS == NumWindows * NUM_WORKERS * BenchBatch
Elements == 0 .. (BenchBatch - 1)

\* One key that run_test has inserted and one that it has not
BenchRequests == {1, NUM_KEYS}

\* run_test::slices
slices(i) ==
  IF i = 0 THEN 0
  ELSE IF i = NUM_WORKERS THEN NUM_REQUESTS
  ELSE LET slice_ == (i * NUM_REQUESTS) \div NUM_WORKERS
       IN slice_ - (slice_ % BenchBatch)

\* Under a hash that sends more keys to one bucket than it has slots, the
\* insertion loop ends with the capacity error and no lookup is made
InitBench ==
  /\ hash_fn \in HashFns
  /\ Constructed(Capacity)
  /\ NoPool
  /\ main = "insert"
  /\ results = << >>
  /\ lookup = << >>
  /\ writers = << >>

\* run_test: table.insert(i) of the insertion loop
run_test_insert ==
  /\ main = "insert"
  /\ n_calls < NUM_KEYS
  /\ last.res \in {"none", "ok"}
  /\ insert(n_calls, NoPayload)

\* run_test: the asserts after the insertion loop pass, results is created
\* and the lookup threads are started
run_test_spawn ==
  /\ main = "insert"
  /\ pc = "idle"
  /\ n_calls = NUM_KEYS
  /\ last.res = "ok"
  /\ \A k \in 0 .. (NUM_KEYS - 1) : ~is_null(find_set(k))
  /\ sz_ = NUM_KEYS
  /\ main' = "join"
  /\ results' = [e \in Elements |-> NullIt]
  /\ writers' = [e \in Elements |-> {}]
  /\ lookup' = [t \in 0 .. (NUM_WORKERS - 1) |->
                  [at |-> "loop", i |-> slices(t), end |-> slices(t + 1),
                   e |-> 0, keys |-> << >>, bucket_id1s |-> << >>,
                   bucket_id2s |-> << >>]]
  /\ UNCHANGED << table_vars, pool_vars >>

\* worker lambda: the loop test; find_batched is entered and its first loop
\* fills the local arrays (bucket_id2s holds the raw hash)
lookup_call(t) ==
  /\ main = "join"
  /\ lookup[t].at = "loop"
  /\ IF lookup[t].i < lookup[t].end
     THEN \E keys \in [Elements -> BenchRequests] :
            lookup' = [lookup EXCEPT
                         ![t].at = "first",
                         ![t].e = 0,
                         ![t].keys = keys,
                         ![t].bucket_id2s = [e \in Elements |-> hash_key(keys[e])],
                         ![t].bucket_id1s =
                            [e \in Elements |-> get_bucket_id(hash_key(keys[e]))]]
     ELSE lookup' = [lookup EXCEPT ![t].at = "done"]
  /\ UNCHANGED << main, results, writers, table_vars, pool_vars >>

\* The position after element e of a loop of find_batched
AfterElement(t, nxt) ==
  IF lookup[t].e + 1 < BenchBatch
  THEN [lookup[t] EXCEPT !.e = lookup[t].e + 1]
  ELSE [lookup[t] EXCEPT !.e = 0, !.at = nxt]

\* find_batched, second loop: results[i] = buckets_[bucket_id1s[i]].find_simd
lookup_first(t) ==
  /\ main = "join"
  /\ lookup[t].at = "first"
  /\ LET e == lookup[t].e
     IN /\ results' = [results EXCEPT ![e] =
                         Bucket_find_simd_set(buckets_, lookup[t].bucket_id1s[e],
                                              lookup[t].keys[e])]
        /\ writers' = [writers EXCEPT ![e] = @ \cup {t}]
  /\ lookup' = [lookup EXCEPT ![t] = AfterElement(t, "ids")]
  /\ UNCHANGED << main, table_vars, pool_vars >>

\* find_batched, third loop: for a result that is null the raw hash in
\* bucket_id2s[i] is replaced by the second bucket id
lookup_ids(t) ==
  /\ main = "join"
  /\ lookup[t].at = "ids"
  /\ LET e == lookup[t].e
         l == AfterElement(t, "second")
     IN lookup' = [lookup EXCEPT ![t] =
                     IF is_null(results[e])
                     THEN [l EXCEPT !.bucket_id2s[e] =
                             get_other_bucket_id(lookup[t].bucket_id2s[e],
                                                 lookup[t].keys[e])]
                     ELSE l]
  /\ UNCHANGED << main, results, writers, table_vars, pool_vars >>

\* find_batched, fourth loop: a result that is null is overwritten with the
\* probe of buckets_[bucket_id2s[i]]; after the last element the window is
\* done and the worker lambda advances i.  When bucket_id2s[i] still holds a
\* raw hash that is no bucket id, the access is outside the bucket array.
lookup_second(t) ==
  /\ main = "join"
  /\ lookup[t].at = "second"
  /\ LET e == lookup[t].e
         l == AfterElement(t, "loop")
         nxt == IF l.at = "loop" THEN [l EXCEPT !.i = lookup[t].i + BenchBatch]
                ELSE l
     IN IF ~is_null(results[e])
        THEN /\ lookup' = [lookup EXCEPT ![t] = nxt]
             /\ UNCHANGED << results, writers >>
        ELSE IF InBounds(lookup[t].bucket_id2s[e])
        THEN /\ results' = [results EXCEPT ![e] =
                              Bucket_find_simd_set(buckets_,
                                                   lookup[t].bucket_id2s[e],
                                                   lookup[t].keys[e])]
             /\ writers' = [writers EXCEPT ![e] = @ \cup {t}]
             /\ lookup' = [lookup EXCEPT ![t] = nxt]
        ELSE /\ \E o \in UndefinedOutcomes :
                  lookup' = [lookup EXCEPT ![t].at = o]
             /\ UNCHANGED << results, writers >>
  /\ UNCHANGED << main, table_vars, pool_vars >>

\* run_test: every lookup thread has been joined
run_test_join ==
  /\ main = "join"
  /\ \A t \in DOMAIN lookup : lookup[t].at = "done"
  /\ main' = "joined"
  /\ UNCHANGED << results, lookup, writers, table_vars, pool_vars >>

NextBench ==
  \/ run_test_insert
  \/ displace_insert
  \/ run_test_spawn
  \/ \E t \in DOMAIN lookup : lookup_call(t)
  \/ \E t \in DOMAIN lookup : lookup_first(t)
  \/ \E t \in DOMAIN lookup : lookup_ids(t)
  \/ \E t \in DOMAIN lookup : lookup_second(t)
  \/ run_test_join

SpecBench == InitBench /\ [][NextBench]_vars

\* ======================================================================
\* Properties
\* ======================================================================

\* The two home buckets of a key, from the hash strategy H and the bucket
\* count B alone: H(key) & (B-1) and H(H(key) XOR key) & (B-1)
Home1(k) == BitAnd(hash_fn[k], num_buckets_ - 1)
Home2(k) == BitAnd(hash_fn[BitXor(hash_fn[k], k)], num_buckets_ - 1)

\* The last insert ran a displacement walk that moved a stored key
Displaced(k) ==
  /\ k \in StoredKeys(at_entry)
  /\ SlotsOf(at_entry, k) # SlotsOf(buckets_, k)

\* The windows handed to find_batched: up to MaxBatch keys out of two keys
\* and the sentinel, a key repeated or not
BatchKeys == {0, 2, NULL_KEY}
Windows ==
  UNION { [1 .. n -> BatchKeys] :
            n \in { m \in 0 .. MaxBatch : m <= MAX_LOOKUP_BATCH_SZ } }

\* C1: after precondition-respecting inserts and erases that all returned
\* without error, find(k) of every key k inserted and not erased since is a
\* non-null cursor whose key() is k.
C1_PresentKeysFound ==
  (clean /\ pc = "idle") =>
    \A k \in present :
      /\ ~is_null(find(k))
      /\ it_key(buckets_, find(k)) = k

\* C1 witness: an error-free run whose last insert ran a displacement walk,
\* with a present key found in its second home bucket.
C1_Witness ==
  /\ clean /\ pc = "idle"
  /\ last.op = "insert" /\ last.res = "ok"
  /\ \E k \in present : Displaced(k)
  /\ \E k \in present :
       /\ ~is_null(find(k))
       /\ it_key(buckets_, find(k)) = k
       /\ find(k).bucket_ # Home1(k)
  /\ ~is_null(find(last.key))

\* C2: after precondition-respecting inserts and erases that all returned
\* without error, find(k) is null for every key never inserted or erased
\* since its last insert.
C2_AbsentKeysNotFound ==
  (clean /\ pc = "idle") =>
    \A k \in Keys \ present : is_null(find(k))

\* C2 witness: a key was inserted, a displacement walk moved stored keys,
\* then the key was erased through find, and find no longer finds it.
C2_Witness ==
  /\ clean /\ pc = "idle"
  /\ last.op = "erase"
  /\ rehomed # {}
  /\ last.key \notin present
  /\ is_null(find(last.key))

\* C3: in every table state between two calls, for every window of keys,
\* find_batched of the map variant and of the set variant write, at every
\* index, the cursor that the serial find of that key returns.
C3_BatchedEqualsSerial ==
  pc = "idle" =>
    \A w \in Windows :
      /\ find_batched(w) = [i \in 1 .. Len(w) |-> find(w[i])]
      /\ find_batched_set(w) = [i \in 1 .. Len(w) |-> find_set(w[i])]

\* C3 witness: a window that mixes a hit in the second home bucket with a
\* miss, answered alike by both variants.
C3_Witness ==
  /\ pc = "idle"
  /\ \E w \in Windows :
       /\ Len(w) >= 2
       /\ ~is_null(find_batched_set(w)[1])
       /\ find_batched_set(w)[1].bucket_ # Home1(w[1])
       /\ is_null(find_batched_set(w)[2])
       /\ find_batched(w) = find_batched_set(w)

\* C4: whenever no call is running, size() is the number of inserts that
\* returned without error minus the number of erases.
C4_SizeCountsSuccessfulInserts ==
  pc = "idle" => sz_ = n_ok - n_erase

\* C5: in every reachable state, the states inside a displacement walk and
\* after a failed walk included, every occupied slot holds a key one of
\* whose home buckets is the slot's bucket.
C5_KeysInHomeBuckets ==
  \A s \in AllSlots(buckets_) :
    LET key == buckets_[s[1]].key_slots[s[2]]
    IN key # NULL_KEY => (s[1] = Home1(key) \/ s[1] = Home2(key))

\* C5 witness: a walk that evicted keys with equal home buckets has just
\* failed at the depth cap.
C5_Witness ==
  /\ pc = "idle"
  /\ last.op = "insert" /\ last.res = "cap"
  /\ \E k \in StoredKeys(buckets_) : Home1(k) = Home2(k) /\ k \in rehomed

\* C6: after precondition-respecting inserts and erases that all returned
\* without error, every live key occupies exactly one slot and size() is the
\* number of non-sentinel slots.
C6_OneSlotPerKey ==
  (clean /\ pc = "idle") =>
    /\ \A k \in present : Cardinality(SlotsOf(buckets_, k)) = 1
    /\ sz_ = Cardinality({ s \in AllSlots(buckets_) :
                             buckets_[s[1]].key_slots[s[2]] # NULL_KEY })

\* C6 witness: more live keys than one bucket holds, after a displacement
\* walk moved one of them.
C6_Witness ==
  /\ clean /\ pc = "idle"
  /\ Cardinality(present) > SLOTS_PER_BUCKET
  /\ \E k \in present : Displaced(k)
  /\ sz_ = Cardinality(present)

\* C7: in the map variant, find(k).value() of every live key k is the value
\* last associated with k by its insert or by a write through a cursor.
C7_ValueFollowsKey ==
  (clean /\ pc = "idle") =>
    \A k \in present :
      /\ ~is_null(find(k))
      /\ it_value(buckets_, find(k)) = assoc[k]

\* C7 witness: two live keys with different values, one of them moved to
\* its other home bucket by the displacement walk of another key's insert.
C7_Witness ==
  /\ clean /\ pc = "idle"
  /\ last.op = "insert" /\ last.res = "ok"
  /\ \E k \in present \ {last.key} :
       /\ Displaced(k)
       /\ it_value(buckets_, find(k)) = assoc[k]
       /\ assoc[k] # last.value

\* C8: an insert of a key that is stored in the table when the call is made
\* ends with the duplicate-key error.
C8_DuplicateInsertRaises ==
  (pc = "idle" /\ last.op = "insert" /\ last.key \in StoredKeys(at_entry))
    => last.res = "dup"

\* C9: after an insert that failed with the capacity error, find of the
\* caller's key is null.
C9_FailedKeyNotInstalled ==
  (pc = "idle" /\ last.op = "insert" /\ last.res = "cap")
    => is_null(find(last.key))

\* C10: after an insert that failed with the capacity error, every key
\* installed before is still found, and the stored keys other than the
\* caller's are those stored before the call.
C10_FailedInsertLosesNoKey ==
  (pc = "idle" /\ last.op = "insert" /\ last.res = "cap")
    => /\ \A k \in StoredKeys(at_entry) : ~is_null(find(k))
       /\ StoredKeys(buckets_) \ {last.key} = StoredKeys(at_entry) \ {last.key}


\* n is a power of two
IsPow2(n) == n >= 1 /\ BitAnd(n, n - 1) = 0

\* C11: for every requested capacity, the table has at least one bucket, its
\* slot count is a power of two not below the request, the mask is the bucket
\* count minus one, a request below one bucket's slots gives one bucket, and
\* every bucket id computed for a key is below the bucket count.
C11_ConstructionSizes ==
  /\ num_buckets_ >= 1
  /\ IsPow2(num_buckets_ * SLOTS_PER_BUCKET)
  /\ num_buckets_ * SLOTS_PER_BUCKET >= requested
  /\ bucket_bitmask_ = num_buckets_ - 1
  /\ (requested < SLOTS_PER_BUCKET => num_buckets_ = 1)
  /\ \A k \in Keys :
       /\ get_bucket_id(hash_key(k)) < num_buckets_
       /\ get_other_bucket_id(hash_key(k), k) < num_buckets_

\* C12: in a table with one bucket the first SLOTS_PER_BUCKET inserts of new
\* keys return without a displacement, every later insert of a new key ends
\* with the capacity error, and no walk goes deeper than MAX_INSERT_DEPTH.
C12_OneBucketFillsThenFails ==
  num_buckets_ = 1 =>
    /\ (pc = "walk" =>
          /\ n_calls > SLOTS_PER_BUCKET
          /\ frame.curr_depth <= MAX_INSERT_DEPTH)
    /\ ((pc = "idle" /\ last.op = "insert") =>
          IF n_calls <= SLOTS_PER_BUCKET
          THEN last.res = "ok" /\ rehomed = {} /\ curr_idx = 0
          ELSE last.res = "cap")

\* C12 witness: a one-bucket table whose four slots were filled by four
\* inserts has thrown the capacity error on the fifth.
C12_Witness ==
  /\ num_buckets_ = 1
  /\ pc = "idle"
  /\ n_ok = SLOTS_PER_BUCKET
  /\ n_calls = SLOTS_PER_BUCKET + 1
  /\ last.op = "insert" /\ last.res = "cap"

\* The jobs that have been run
ExecutedJobs == { executed[n].job : n \in 1 .. Len(executed) }

\* The workers that the caller's last finished call was to stop
Stopped ==
  IF pool_last.op = "kill" THEN {pool_last.index}
  ELSE IF pool_last.op = "kill_all" THEN Workers
  ELSE {}

\* C13: when kill(i) or kill() has returned, every job that was queued on a
\* worker it stopped has been run.
C13_KillDrains ==
  (cpc.at = "idle" /\ pool_last.res = "ok") =>
    \A i \in Stopped :
      \A n \in 1 .. Len(queued[i]) : queued[i][n] \in ExecutedJobs

\* C14: no element of the result array is ever written by two lookup threads.
C14_DisjointResultSlabs ==
  \A e \in DOMAIN writers : Cardinality(writers[e]) <= 1

\* How often each key is stored
KeyCount(bs, key) == Cardinality(SlotsOf(bs, key))

\* C15: when an insert that ran a displacement walk has returned without
\* error, every bucket the walk did not visit is as it was when insert was
\* called, every key is stored as often as before and the caller's key once
\* more, the caller's key sits in one of its home buckets, and so does every
\* key that the walk moved.
C15_WalkFrame ==
  (pc = "idle" /\ last.op = "insert" /\ last.res = "ok" /\ walked # {}) =>
    /\ \A b \in (DOMAIN buckets_) \ walked : buckets_[b] = at_entry[b]
    /\ \A k \in Word \ {NULL_KEY} :
         KeyCount(buckets_, k) =
           KeyCount(at_entry, k) + (IF k = last.key THEN 1 ELSE 0)
    /\ \E s \in SlotsOf(buckets_, last.key) :
         s[1] \in {Home1(last.key), Home2(last.key)}
    /\ \A k \in StoredKeys(at_entry) :
         Displaced(k) =>
           \A s \in SlotsOf(buckets_, k) : s[1] \in {Home1(k), Home2(k)}

\* C15 witness: a walk that moved a key to its other home bucket has ended
\* well, and two buckets of the table were not visited.
C15_Witness ==
  /\ pc = "idle" /\ last.op = "insert" /\ last.res = "ok"
  /\ Cardinality((DOMAIN buckets_) \ walked) >= 2
  /\ \E k \in StoredKeys(at_entry) :
       /\ Displaced(k)
       /\ \E s \in SlotsOf(buckets_, k) : s[1] # Home1(k)
  /\ walked # {}


\* C16: a displacement walk never goes deeper than MAX_INSERT_DEPTH, it starts
\* at depth 0 in the first home bucket of the caller's key, and an insert that
\* ran a walk ends either because an evicted key fitted into its other home
\* bucket or with the capacity error.
C16_WalkEndings ==
  /\ pc = "walk" => frame.curr_depth <= MAX_INSERT_DEPTH
  /\ (pc = "walk" /\ frame.curr_depth = 0) =>
       (frame.key = last.key /\ frame.bucket_id = Home1(last.key))
  /\ (pc = "idle" /\ last.op = "insert" /\ walked # {}) =>
       last.res \in {"ok", "cap"}

\* C17: every insert call adds exactly one to sz_ when it is entered and no
\* later step of the call changes sz_, and after an insert that raised the
\* duplicate-key error every slot of the table is as it was at the call.
C17_DuplicateErrorChangesNoSlot ==
  /\ [][(pc = "idle" /\ last'.op = "insert") => sz_' = sz_ + 1]_vars
  /\ [][pc = "walk" => sz_' = sz_]_vars
  /\ []((pc = "idle" /\ last.op = "insert" /\ last.res = "dup") =>
          buckets_ = at_entry)

\* C18: a bucket that has been displaced SLOTS_PER_BUCKET times or more has
\* been hit in every lane, and the last SLOTS_PER_BUCKET displacements, of
\* whatever bucket, chose each slot index exactly once.
C18_VictimsVisitEveryLane ==
  /\ \A b \in DOMAIN buckets_ :
       victims.hits[b] >= SLOTS_PER_BUCKET => victims.lanes[b] = Slots
  /\ Len(victims.recent) >= SLOTS_PER_BUCKET =>
       \A i \in Slots :
         Cardinality({n \in 1 .. SLOTS_PER_BUCKET : victims.recent[n] = i}) = 1

\* The jobs worker i has run, in the order it ran them
RunBy(i) ==
  LET s == SelectSeq(executed, LAMBDA e : e.worker = i)
  IN [n \in 1 .. Len(s) |-> s[n].job]

IsPrefix(s, t) == Len(s) <= Len(t) /\ \A n \in 1 .. Len(s) : s[n] = t[n]

\* The jobs waiting in the queue of worker i
Pending(i) == { jobs_[i][n] : n \in 1 .. Len(jobs_[i]) }

\* C19: the jobs a worker has run are the first jobs queued on it, each once
\* and in the order they were queued, and a job in the queue of a worker is
\* eventually run unless the worker is killed.
C19_JobsRunInOrder ==
  /\ [](\A i \in Workers : IsPrefix(RunBy(i), queued[i]))
  /\ \A i \in 0 .. (NumThreads - 1) : \A j \in 1 .. MaxPoolCalls :
       (j \in Pending(i)) ~> (j \in ExecutedJobs \/ exits_[i])

\* C19 witness: a worker that has not been killed has run the two jobs queued
\* on it and waits again on its empty queue.
C19_Witness ==
  \E i \in Workers :
    /\ ~exits_[i]
    /\ Len(queued[i]) >= 2
    /\ RunBy(i) = queued[i]
    /\ wpc[i] = "blocked"

\* C20: a call of kill() ends by returning, and when it has ended every
\* worker thread has left worker(), so that no job is started afterwards.
C20_KillAllStopsEveryWorker ==
  (cpc.at = "idle" /\ pool_last.op = "kill_all") =>
    /\ pool_last.res = "ok"
    /\ \A i \in Workers : wpc[i] = "done" /\ threads_[i] = "joined"

\* C21: no worker thread ever accesses an element of mutexes_, conditions_,
\* jobs_ or exits_ that the constructor has not created yet.
C21_NoAccessBeforeCreation ==
  \A i \in DOMAIN wpc : wpc[i] \notin UndefinedOutcomes

\* C22: kill never calls join() on a thread that has been joined before, and
\* no kill call ends with the exception of such a join.
C22_JoinedAtMostOnce ==
  /\ (cpc.op \in {"kill", "kill_all"} /\ cpc.at = "join") =>
       threads_[cpc.index] = "joinable"
  /\ pool_last.op \in {"kill", "kill_all"} => pool_last.res # "throw"

====
